---------------------------- MODULE Spec2Model ----------------------------
(***************************************************************************)
(* A model of downloader.py: the quality resolver, the URL normaliser, the *)
(* preference store, the console progress renderer and the main flow.      *)
(*                                                                         *)
(* Text is modelled as a sequence of characters (one-character strings),   *)
(* so that lower(), strip(), startswith() and int() are computed character *)
(* by character as Python computes them.  An optional value (Python None   *)
(* or a value) is the empty tuple or a one-element tuple.                  *)
(***************************************************************************)
EXTENDS Integers, Sequences, FiniteSets, TLC

VARIABLES
    label,        \* quality_to_format: the argument
    selector,     \* quality_to_format: the result, None before the call
    raw,          \* normalize_url: the argument
    paths,        \* normalize_url: the paths that exist on the file system
    urlDone,      \* normalize_url: TRUE once the call has returned
    normalized,   \* normalize_url: the result (None is "invalid")
    _last_shown,             \* ConsoleProgress._last_shown
    _finished_line_printed,  \* ConsoleProgress._finished_line_printed
    trace,        \* ConsoleProgress: the calls made so far, each with what it
                  \* wrote to standard output
    configFile,     \* the preference file downloader_config.json
    fileAtRunStart, \* the preference file as it was when the current run began
    run,            \* number of the current run of main
    pc,             \* main: where the run is
    args,           \* main: the parsed command line
    config,         \* main: the record returned by load_config
    url,            \* main: the normalised URL
    out_dir,        \* main: the output directory
    quality,        \* main: the quality label
    format_string,  \* main: the selector handed to the engine
    created,        \* directories os.makedirs has succeeded on in this run
    urlPrompts,     \* _interactive_prompt: lines read by the URL loop
    engineCalls,    \* invocations of ydl.download in this run
    engineResult,   \* what ydl.download did: "returned" or "raised"
    saveCalls,      \* calls of save_config in this run
    exit_code,      \* main: the value returned, None while running or raised
    urlLines,       \* _interactive_prompt: the lines read at the URL prompt
    qualityLines,   \* _interactive_prompt: the lines read at the quality prompt
    saveOutcome,    \* what the write of save_config did, None while not called
    loaded,         \* the value load_config returned after a save_config
    etaSeconds,     \* _format_eta: its argument
    etaText         \* _format_eta: its result

qualityVars == <<label, selector>>
urlVars == <<raw, paths, urlDone, normalized>>
progressVars == <<_last_shown, _finished_line_printed, trace>>

mainVars == <<configFile, fileAtRunStart, run, pc, args, config, url, out_dir, quality,
              format_string, created, urlPrompts, engineCalls, engineResult, saveCalls,
              exit_code, urlLines, qualityLines, saveOutcome>>
storeVars == <<loaded>>
etaVars == <<etaSeconds, etaText>>

vars == <<qualityVars, urlVars, progressVars, mainVars, storeVars, etaVars>>

-----------------------------------------------------------------------------
(* Optional values *)

None == <<>>
Some(x) == <<x>>
Val(o) == o[1]

-----------------------------------------------------------------------------
(* Python str methods, over sequences of characters *)

UpperCase == <<"A","B","C","D","E","F","G","H","I","J","K","L","M",
               "N","O","P","Q","R","S","T","U","V","W","X","Y","Z">>
LowerCase == <<"a","b","c","d","e","f","g","h","i","j","k","l","m",
               "n","o","p","q","r","s","t","u","v","w","x","y","z">>
AsciiDigits == <<"0","1","2","3","4","5","6","7","8","9">>

\* U+00B2 SUPERSCRIPT TWO: str.isdigit() is True for it, int() rejects it
Sup2 == "sup2"

lower_char(c) ==
    IF \E i \in 1..26 : UpperCase[i] = c
    THEN LowerCase[CHOOSE i \in 1..26 : UpperCase[i] = c]
    ELSE c

lower(s) == [i \in 1..Len(s) |-> lower_char(s[i])]

isdigit(c) == (\E i \in 1..10 : AsciiDigits[i] = c) \/ c = Sup2

isspace(c) == c \in {" ", "\t", "\n"}

RECURSIVE lstrip(_)
lstrip(s) == IF s # <<>> /\ isspace(Head(s)) THEN lstrip(Tail(s)) ELSE s

RECURSIVE rstrip(_)
rstrip(s) ==
    IF s # <<>> /\ isspace(s[Len(s)]) THEN rstrip(SubSeq(s, 1, Len(s) - 1)) ELSE s

strip(s) == rstrip(lstrip(s))

startswith(s, prefix) ==
    /\ Len(prefix) <= Len(s)
    /\ SubSeq(s, 1, Len(prefix)) = prefix

digit_value(c) == (CHOOSE i \in 1..10 : AsciiDigits[i] = c) - 1

RECURSIVE decimal_value(_)
decimal_value(s) ==
    IF s = <<>> THEN 0
    ELSE 10 * decimal_value(SubSeq(s, 1, Len(s) - 1)) + digit_value(s[Len(s)])

\* int(s) for a string of isdigit() characters: None stands for ValueError
int(s) ==
    IF s = <<>> \/ \E i \in 1..Len(s) : s[i] = Sup2
    THEN None
    ELSE Some(decimal_value(s))

\* "{n:d}"
RECURSIVE format_int(_)
format_int(n) ==
    IF n < 0 THEN <<"-">> \o format_int(-n)
    ELSE IF n < 10 THEN <<AsciiDigits[n + 1]>>
    ELSE format_int(n \div 10) \o <<AsciiDigits[(n % 10) + 1]>>

-----------------------------------------------------------------------------
(* quality_to_format *)

BestLabel == <<"b","e","s","t">>
BestAvailableLabel == <<"b","e","s","t"," ","a","v","a","i","l","a","b","l","e">>
AutoLabel == <<"a","u","t","o">>

DefaultHeight == 1080

height_chain(height) ==
    <<"b","e","s","t","[","h","e","i","g","h","t","<","=">> \o format_int(height)
    \o <<"]","/","b","e","s","t","v","i","d","e","o","[","h","e","i","g","h","t","<","=">>
    \o format_int(height)
    \o <<"]","+","b","e","s","t","a","u","d","i","o","/","b","e","s","t">>

RECURSIVE leading_digits(_)
leading_digits(s) ==
    IF s = <<>> \/ ~isdigit(Head(s)) THEN <<>> ELSE <<Head(s)>> \o leading_digits(Tail(s))

RECURSIVE from_first_digit(_)
from_first_digit(s) ==
    IF s = <<>> \/ isdigit(Head(s)) THEN s ELSE from_first_digit(Tail(s))

\* variant: the first run of digits found, not all the digits
quality_digits_first_found(q) == leading_digits(from_first_digit(q))

\* "".join(ch for ch in quality if ch.isdigit())
quality_digits(q) == SelectSeq(q, isdigit)

\* variant: the synonyms of "best" compared without lower()
quality_to_format_case_sensitive(q) ==
    IF q \in {BestLabel, BestAvailableLabel, AutoLabel}
    THEN BestLabel
    ELSE LET parsed == int(quality_digits(q))
             height == IF parsed = None THEN DefaultHeight ELSE Val(parsed)
         IN  height_chain(height)

quality_to_format(q) ==
    IF lower(q) \in {BestLabel, BestAvailableLabel, AutoLabel}
    THEN BestLabel
    ELSE LET parsed == int(quality_digits(q))
             height == IF parsed = None THEN DefaultHeight ELSE Val(parsed)
         IN  height_chain(height)

-----------------------------------------------------------------------------
(* normalize_url *)

HttpPrefix == <<"h","t","t","p",":","/","/">>
HttpsPrefix == <<"h","t","t","p","s",":","/","/">>
HostPrefixes ==
    { <<"w","w","w",".">>,
      <<"y","o","u","t","u","b","e",".","c","o","m">>,
      <<"m",".","y","o","u","t","u","b","e",".","c","o","m">>,
      <<"y","o","u","t","u",".","b","e">> }

\* os.path.exists: the empty path never exists
path_exists(fs, p) == p # <<>> /\ p \in fs

\* variant: os.path.exists asked about the string before strip()
normalize_url_exists_untrimmed(raw_url, fs) ==
    IF raw_url = <<>> THEN None
    ELSE LET u == strip(raw_url) IN
         IF path_exists(fs, raw_url) THEN None
         ELSE IF startswith(lower(u), HttpPrefix) \/ startswith(lower(u), HttpsPrefix)
              THEN Some(u)
         ELSE IF \E p \in HostPrefixes : startswith(lower(u), p)
              THEN Some(HttpsPrefix \o u)
         ELSE None

normalize_url(raw_url, fs) ==
    IF raw_url = <<>> THEN None
    ELSE LET u == strip(raw_url) IN
         IF path_exists(fs, u) THEN None
         ELSE IF startswith(lower(u), HttpPrefix) \/ startswith(lower(u), HttpsPrefix)
              THEN Some(u)
         ELSE IF \E p \in HostPrefixes : startswith(lower(u), p)
              THEN Some(HttpsPrefix \o u)
         ELSE None

-----------------------------------------------------------------------------
(* Bounded input sets *)

MaxLabelLen == 2
MaxTailLen == 1

RECURSIVE StringsUpTo(_, _)
StringsUpTo(alphabet, n) ==
    IF n = 0 THEN { <<>> }
    ELSE LET shorter == StringsUpTo(alphabet, n - 1)
         IN  shorter \cup { s \o <<c>> : s \in shorter, c \in alphabet }

QualityChoices ==
    { <<"2","1","6","0","p">>, <<"1","4","4","0","p">>, <<"1","0","8","0","p">>,
      <<"7","2","0","p">>, <<"4","8","0","p">>, <<"3","6","0","p">>, BestLabel }

Labels ==
    QualityChoices
    \cup { BestAvailableLabel, AutoLabel,
           <<"B","E","S","T">>, <<"B","e","s","T">>, <<"A","u","t","o">>, <<"A","U","T","O">>,
           <<"B","e","s","t"," ","A","v","a","i","l","a","b","l","e">>,
           <<"B","E","S","T"," ","A","V","A","I","L","A","B","L","E">>,
           <<"b","e","s","t","e","s","t">>, <<"b","e","s","t"," ">>,
           <<"4","k","2","1","6","0">>, <<"7","2","0","P">>, <<"0","7","2","0">>,
           <<"h","d">>, <<"7","2","0",Sup2>> }
    \cup StringsUpTo({"7", "2", "0", "p", "k", " ", Sup2}, MaxLabelLen)

UrlHeads ==
    { <<>>, HttpPrefix, HttpsPrefix,
      <<"H","T","T","P",":","/","/">>, <<"H","t","t","p","S",":","/","/">>,
      <<"h","t","t","p",":","/">>, <<"f","t","p",":","/","/">>,
      <<"w","w","w",".">>, <<"W","w","w",".">>, <<"w","w","w">>,
      <<"y","o","u","t","u","b","e",".","c","o","m">>,
      <<"m",".","y","o","u","t","u","b","e",".","c","o","m">>,
      <<"y","o","u","t","u",".","b","e">>, <<"Y","o","u","T","u",".","B","E">>,
      <<"n","o","t"," ","a"," ","u","r","l">>, <<"v","i","d","e","o",".","m","p","4">> }

UrlTails == StringsUpTo({"/", "x"}, MaxTailLen)
Blanks == { <<>>, <<" ">>, <<"\t">>, <<"\n">> }

RawUrls == { b1 \o h \o t \o b2 : b1 \in {<<>>, <<" ">>}, h \in UrlHeads, t \in UrlTails, b2 \in Blanks }
LocalPaths == { h \o t : h \in UrlHeads, t \in UrlTails } \ { <<>> }

-----------------------------------------------------------------------------
(* ConsoleProgress *)

SpeedUnits == <<<<"B","/","s">>, <<"K","B","/","s">>, <<"M","B","/","s">>, <<"G","B","/","s">>>>

RECURSIVE pow1024(_)
pow1024(i) == IF i = 0 THEN 1 ELSE 1024 * pow1024(i - 1)

\* the while loop of _human_speed: bps is an integer, so bps / 1024.0^i is
\* exact in floating point and the loop stops at the unit index returned
RECURSIVE speed_unit_index(_, _)
speed_unit_index(bps, i) ==
    IF bps >= 1024 * pow1024(i) /\ i < Len(SpeedUnits) - 1
    THEN speed_unit_index(bps, i + 1)
    ELSE i

\* "{x:.2f}" of the exact quotient num / den: hundredths, ties to even
round_hundredths(num, den) ==
    LET q == (num * 100) \div den
        r == (num * 100) % den
    IN  IF 2 * r > den \/ (2 * r = den /\ q % 2 = 1) THEN q + 1 ELSE q

zero_pad2(n) == IF n < 10 THEN <<"0">> \o format_int(n) ELSE format_int(n)

format_2f(hundredths) ==
    format_int(hundredths \div 100) \o <<".">> \o zero_pad2(hundredths % 100)

_human_speed(bps) ==
    IF bps = None \/ Val(bps) = 0
    THEN <<"?">>
    ELSE LET i == speed_unit_index(Val(bps), 0)
         IN  format_2f(round_hundredths(Val(bps), pow1024(i))) \o <<" ">> \o SpeedUnits[i + 1]

\* variant: "if not seconds" in place of "if seconds is None"
_format_eta_falsy(seconds) ==
    IF seconds = None \/ Val(seconds) = 0
    THEN <<"?">>
    ELSE LET m0 == Val(seconds) \div 60
             s == Val(seconds) % 60
             h == m0 \div 60
             m == m0 % 60
         IN  IF h # 0
             THEN format_int(h) \o <<":">> \o zero_pad2(m) \o <<":">> \o zero_pad2(s)
             ELSE zero_pad2(m) \o <<":">> \o zero_pad2(s)

_format_eta(seconds) ==
    IF seconds = None
    THEN <<"?">>
    ELSE LET m0 == Val(seconds) \div 60
             s == Val(seconds) % 60
             h == m0 \div 60
             m == m0 % 60
         IN  IF h # 0
             THEN format_int(h) \o <<":">> \o zero_pad2(m) \o <<":">> \o zero_pad2(s)
             ELSE zero_pad2(m) \o <<":">> \o zero_pad2(s)

\* "{percent:3d}"
format_3d(n) ==
    LET digits == format_int(n)
    IN  [i \in 1..(3 - Len(digits)) |-> " "] \o digits

unknown_size_line(speed, eta) ==
    <<"D","o","w","n","l","o","a","d","i","n","g",".",".","."," ",
      "(","u","n","k","n","o","w","n"," ","s","i","z","e",")"," ","|"," ">>
    \o _human_speed(speed) \o <<" ","|"," ","E","T","A"," ">> \o _format_eta(eta)

percent_line(percent, speed, eta) ==
    <<"D","o","w","n","l","o","a","d","i","n","g",":"," ">> \o format_3d(percent)
    \o <<"%"," ","|"," ">> \o _human_speed(speed)
    \o <<" ","|"," ","E","T","A"," ">> \o _format_eta(eta)

\* A ConsoleProgress object with the standard output it has produced:
\* [last_shown, finished_line_printed, out], out a sequence of writes

\* print(f"\r{line}", end="", flush=True)
print_in_place(out, line) == Append(out, <<"\r">> \o line)

\* print(text) ; print() is print_line(out, <<>>)
print_line(out, text) == Append(out, text \o <<"\n">>)

\* variant: without the "percent == self._last_shown" early return
_print_progress_no_dedup(self, percent, speed, eta) ==
    IF percent = None
    THEN [self EXCEPT !.out = print_in_place(@, unknown_size_line(speed, eta)),
                      !.finished_line_printed = FALSE]
    ELSE [self EXCEPT !.last_shown = Val(percent),
                      !.out = print_in_place(@, percent_line(Val(percent), speed, eta)),
                      !.finished_line_printed = FALSE]

_print_progress(self, percent, speed, eta) ==
    IF percent = None
    THEN [self EXCEPT !.out = print_in_place(@, unknown_size_line(speed, eta)),
                      !.finished_line_printed = FALSE]
    ELSE IF Val(percent) = self.last_shown
    THEN self
    ELSE [self EXCEPT !.last_shown = Val(percent),
                      !.out = print_in_place(@, percent_line(Val(percent), speed, eta)),
                      !.finished_line_printed = FALSE]

\* variant: the newline printed, but _finished_line_printed left as it was
_println_not_remembering(self, text) ==
    LET started == IF ~self.finished_line_printed
                   THEN [self EXCEPT !.out = print_line(@, <<>>)]
                   ELSE self
    IN  [started EXCEPT !.out = print_line(@, text)]

_println(self, text) ==
    LET started == IF ~self.finished_line_printed
                   THEN [self EXCEPT !.out = print_line(@, <<>>),
                                     !.finished_line_printed = TRUE]
                   ELSE self
    IN  [started EXCEPT !.out = print_line(@, text)]

ProcessingText == <<"P","r","o","c","e","s","s","i","n","g"," ","f","i","l","e",".",".",".">>
CompletedText ==
    <<"D","o","w","n","l","o","a","d"," ","c","o","m","p","l","e","t","e","d"," ",
      "s","u","c","c","e","s","s","f","u","l","l","y",".">>

\* x or y
or_else(x, y) == IF x # None /\ Val(x) # 0 THEN x ELSE y

\* int(max(0.0, min(100.0, (downloaded / total) * 100.0))); for the byte
\* counts used here the floating-point product truncates to the same integer
\* as the exact quotient
clamp_percent(downloaded, total) ==
    LET exact == (downloaded * 100) \div total
    IN  IF exact < 0 THEN 0 ELSE IF exact > 100 THEN 100 ELSE exact

\* lines 51-57 of hook: the percent handed to _print_progress
hook_percent(d) ==
    LET downloaded == Val(or_else(d.downloaded_bytes, Some(0)))
        total == or_else(d.total_bytes, d.total_bytes_estimate)
    IN  IF total # None /\ Val(total) # 0 /\ Val(total) > 0
        THEN Some(clamp_percent(downloaded, Val(total)))
        ELSE None

hook(self, d) ==
    IF d.status = Some("downloading")
    THEN _print_progress(self, hook_percent(d), d.speed, d.eta)
    ELSE IF d.status = Some("finished")
    THEN _println(_print_progress(self, Some(100), None, None), ProcessingText)
    ELSE self

\* ConsoleProgress.__init__
InitialLastShown == -1

(* Progress events the engine delivers *)

TotalBytes == 2
MaxBytes == 3
MaxCalls == 4

Event(status, downloaded, total, estimate, speed, eta) ==
    [status |-> status, downloaded_bytes |-> downloaded, total_bytes |-> total,
     total_bytes_estimate |-> estimate, speed |-> speed, eta |-> eta]

ProgressEvents ==
    { Event(Some("downloading"), Some(n), Some(TotalBytes), None, None, None) : n \in 0..MaxBytes }
    \cup { Event(Some("downloading"), Some(n), None, None, None, None) : n \in {0, MaxBytes} }
    \cup { Event(Some("downloading"), Some(1), Some(0), None, Some(1408), Some(3725)),
           Event(Some("downloading"), None, Some(0), Some(TotalBytes), Some(512), Some(75)),
           Event(Some("downloading"), Some(TotalBytes), None, Some(TotalBytes), Some(0), Some(0)),
           Event(Some("finished"), Some(TotalBytes), Some(TotalBytes), None, None, None),
           Event(Some("error"), None, None, None, None, None),
           Event(None, None, None, None, None, None) }
-----------------------------------------------------------------------------
(* Python values that are not necessarily text: what json.load can return  *)
(* and therefore what config, out_dir and quality can hold.  A dict is its *)
(* key-value pairs in insertion order, the keys being text                 *)

StrValue(s) == [t |-> "str", s |-> s]
IntValue(n) == [t |-> "int", n |-> n]
BoolValue(b) == [t |-> "bool", b |-> b]
NoneValue == [t |-> "NoneType"]
ListValue(elems) == [t |-> "list", elems |-> elems]
EmptyList == ListValue(<<>>)
Dict(items) == [t |-> "dict", items |-> items]
EmptyItems == <<>>

is_str(v) == v.t = "str"
is_dict(v) == v.t = "dict"

dict_keys(d) == { d.items[i][1] : i \in 1..Len(d.items) }

\* d.get(key, default) on a dict
dict_get(d, key, default) ==
    IF key \in dict_keys(d)
    THEN d.items[CHOOSE i \in 1..Len(d.items) : d.items[i][1] = key][2]
    ELSE default

\* d[key] = value on a dict: a key already there keeps its place
dict_set(d, key, value) ==
    IF key \in dict_keys(d)
    THEN Dict([i \in 1..Len(d.items) |->
                  IF d.items[i][1] = key THEN <<key, value>> ELSE d.items[i]])
    ELSE Dict(Append(d.items, <<key, value>>))

\* a == b on two dicts: the same keys with the same values, in any order
dict_equal(a, b) ==
    { a.items[i] : i \in 1..Len(a.items) } = { b.items[i] : i \in 1..Len(b.items) }

KeyDownloadLocation ==
    <<"d","o","w","n","l","o","a","d","_","l","o","c","a","t","i","o","n">>
KeyQuality == <<"q","u","a","l","i","t","y">>

(* json.dump: the text written (ensure_ascii, separators ", " and ": ") *)

Quote == "\""
Backslash == "\\"

\* variant: the characters of a string written as they are
json_escape_char_raw(c) == <<c>>

json_escape_char(c) ==
    CASE c = Quote -> <<Backslash, Quote>>
      [] c = Backslash -> <<Backslash, Backslash>>
      [] c = "\n" -> <<Backslash, "n">>
      [] c = "\r" -> <<Backslash, "r">>
      [] c = "\t" -> <<Backslash, "t">>
      [] c = Sup2 -> <<Backslash, "u", "0", "0", "b", "2">>
      [] OTHER -> <<c>>

RECURSIVE json_escape(_)
json_escape(s) ==
    IF s = <<>> THEN <<>> ELSE json_escape_char(Head(s)) \o json_escape(Tail(s))

json_string(s) == <<Quote>> \o json_escape(s) \o <<Quote>>

RECURSIVE json_dumps(_)
RECURSIVE json_join_values(_)
RECURSIVE json_join_pairs(_)

json_join_values(elems) ==
    IF elems = <<>> THEN <<>>
    ELSE json_dumps(Head(elems))
         \o (IF Len(elems) > 1 THEN <<",", " ">> ELSE <<>>)
         \o json_join_values(Tail(elems))

json_join_pairs(items) ==
    IF items = <<>> THEN <<>>
    ELSE json_string(Head(items)[1]) \o <<":", " ">> \o json_dumps(Head(items)[2])
         \o (IF Len(items) > 1 THEN <<",", " ">> ELSE <<>>)
         \o json_join_pairs(Tail(items))

json_dumps(v) ==
    CASE v.t = "str" -> json_string(v.s)
      [] v.t = "int" -> format_int(v.n)
      [] v.t = "bool" -> IF v.b THEN <<"t","r","u","e">> ELSE <<"f","a","l","s","e">>
      [] v.t = "NoneType" -> <<"n","u","l","l">>
      [] v.t = "list" -> <<"[">> \o json_join_values(v.elems) \o <<"]">>
      [] v.t = "dict" -> <<"{">> \o json_join_pairs(v.items) \o <<"}">>

(* json.load: the value read from a text, or failure (JSONDecodeError).    *)
(* A parse result is [ok, value, next], next the position after the value. *)
(* Numbers are integers and \u escapes are those of UnicodeEscapes: the    *)
(* texts read here hold no others                                          *)

ParseError == [ok |-> FALSE]
Parsed(v, n) == [ok |-> TRUE, value |-> v, next |-> n]

\* the character at position i, "" past the end
char_at(text, i) == IF i >= 1 /\ i <= Len(text) THEN text[i] ELSE ""

\* text[i-1:j], shorter when the text ends before j
slice(text, i, j) ==
    LET last == IF j <= Len(text) THEN j ELSE Len(text)
    IN  [k \in 1..(last - i + 1) |-> text[i + k - 1]]

RECURSIVE skip_whitespace(_, _)
skip_whitespace(text, i) ==
    IF char_at(text, i) \in {" ", "\t", "\n", "\r"} THEN skip_whitespace(text, i + 1) ELSE i

UnicodeEscapes == { <<<<"0","0","b","2">>, Sup2>>, <<<<"0","0","B","2">>, Sup2>>,
                    <<<<"0","0","2","f">>, "/">>, <<<<"0","0","2","F">>, "/">> }

SimpleEscapes == { <<Quote, Quote>>, <<Backslash, Backslash>>, <<"/", "/">>,
                   <<"n", "\n">>, <<"r", "\r">>, <<"t", "\t">> }

\* the characters of a string literal from position i (after the opening
\* quote) on, acc the characters decoded so far
RECURSIVE scan_string(_, _, _)
scan_string(text, i, acc) ==
    LET c == char_at(text, i) IN
    IF c = "" \/ c \in {"\n", "\r", "\t"} THEN ParseError
    ELSE IF c = Quote THEN Parsed(acc, i + 1)
    ELSE IF c = Backslash
    THEN LET e == char_at(text, i + 1) IN
         IF \E p \in SimpleEscapes : p[1] = e
         THEN scan_string(text, i + 2,
                          Append(acc, (CHOOSE p \in SimpleEscapes : p[1] = e)[2]))
         ELSE IF e = "u" /\ \E p \in UnicodeEscapes : p[1] = slice(text, i + 2, i + 5)
         THEN scan_string(text, i + 6,
                          Append(acc, (CHOOSE p \in UnicodeEscapes :
                                          p[1] = slice(text, i + 2, i + 5))[2]))
         ELSE ParseError
    ELSE scan_string(text, i + 1, Append(acc, c))

is_ascii_digit(c) == \E k \in 1..10 : AsciiDigits[k] = c

RECURSIVE digits_end(_, _)
digits_end(text, i) == IF is_ascii_digit(char_at(text, i)) THEN digits_end(text, i + 1) ELSE i

\* an integer literal: -? (0 | [1-9][0-9]*)
scan_number(text, i) ==
    LET first == IF char_at(text, i) = "-" THEN i + 1 ELSE i
        last == IF char_at(text, first) = "0" THEN first + 1 ELSE digits_end(text, first)
        magnitude == decimal_value(SubSeq(text, first, last - 1))
    IN  IF last = first THEN ParseError
        ELSE Parsed(IntValue(IF first > i THEN -magnitude ELSE magnitude), last)

RECURSIVE parse_value(_, _)
RECURSIVE parse_elements(_, _, _)
RECURSIVE parse_members(_, _, _)

\* the elements of an array from position i on, acc the elements so far
parse_elements(text, i, acc) ==
    LET element == parse_value(text, i) IN
    IF ~element.ok THEN ParseError
    ELSE LET j == skip_whitespace(text, element.next)
             elems == Append(acc, element.value)
         IN  IF char_at(text, j) = "]" THEN Parsed(ListValue(elems), j + 1)
             ELSE IF char_at(text, j) = ","
             THEN parse_elements(text, skip_whitespace(text, j + 1), elems)
             ELSE ParseError

\* the members of an object from position i (at a key) on, acc the dict so
\* far: a key met again overwrites the value it had
parse_members(text, i, acc) ==
    IF char_at(text, i) # Quote THEN ParseError
    ELSE LET key == scan_string(text, i + 1, <<>>) IN
         IF ~key.ok THEN ParseError
         ELSE LET colon == skip_whitespace(text, key.next) IN
              IF char_at(text, colon) # ":" THEN ParseError
              ELSE LET member == parse_value(text, skip_whitespace(text, colon + 1)) IN
                   IF ~member.ok THEN ParseError
                   ELSE LET j == skip_whitespace(text, member.next)
                            d == dict_set(acc, key.value, member.value)
                        IN  IF char_at(text, j) = "}" THEN Parsed(d, j + 1)
                            ELSE IF char_at(text, j) = ","
                            THEN parse_members(text, skip_whitespace(text, j + 1), d)
                            ELSE ParseError

parse_value(text, i) ==
    LET c == char_at(text, i) IN
    CASE c = Quote ->
            LET s == scan_string(text, i + 1, <<>>) IN
            IF s.ok THEN Parsed(StrValue(s.value), s.next) ELSE ParseError
      [] c = "{" ->
            LET j == skip_whitespace(text, i + 1) IN
            IF char_at(text, j) = "}" THEN Parsed(Dict(EmptyItems), j + 1)
            ELSE parse_members(text, j, Dict(EmptyItems))
      [] c = "[" ->
            LET j == skip_whitespace(text, i + 1) IN
            IF char_at(text, j) = "]" THEN Parsed(EmptyList, j + 1)
            ELSE parse_elements(text, j, <<>>)
      [] c = "n" /\ slice(text, i, i + 3) = <<"n","u","l","l">> -> Parsed(NoneValue, i + 4)
      [] c = "t" /\ slice(text, i, i + 3) = <<"t","r","u","e">> -> Parsed(BoolValue(TRUE), i + 4)
      [] c = "f" /\ slice(text, i, i + 4) = <<"f","a","l","s","e">> -> Parsed(BoolValue(FALSE), i + 5)
      [] c = "-" \/ is_ascii_digit(c) -> scan_number(text, i)
      [] OTHER -> ParseError

\* json.loads: one value, white space around it, nothing after it
json_loads(text) ==
    LET v == parse_value(text, skip_whitespace(text, 1)) IN
    IF v.ok /\ skip_whitespace(text, v.next) = Len(text) + 1 THEN v ELSE ParseError

(* The preference file *)

MissingFile == [kind |-> "missing"]
UnreadableFile == [kind |-> "unreadable"]    \* open() or decoding raises
TextFile(text) == [kind |-> "text", text |-> text]
\* a file json.load raises on: the text {"quality":
MalformedFile == TextFile(<<"{", Quote, "q","u","a","l","i","t","y", Quote, ":", " ">>)
\* the file json.dump(v, f) leaves
JsonFile(v) == TextFile(json_dumps(v))
\* the file open(CONFIG_FILE, "w") leaves when nothing is written after it
TruncatedFile == TextFile(<<>>)

load_config(file) ==
    IF file.kind = "text"
    THEN LET parsed == json_loads(file.text)
         IN  IF parsed.ok THEN parsed.value ELSE Dict(EmptyItems)
    ELSE Dict(EmptyItems)

\* outcome: "written", "open_failed" (open raises, file untouched) or
\* "write_failed" (the file was truncated by open, then the write raises)
save_config(file, cfg, outcome) ==
    CASE outcome = "written" -> JsonFile(cfg)
      [] outcome = "open_failed" -> file
      [] outcome = "write_failed" -> TruncatedFile

\* os.path.join(os.path.expanduser("~"), "Downloads")
HomeDownloads == <<"~","/","D","o","w","n","l","o","a","d","s">>

\* variant: the persisted download_location ignored
default_download_dir_platform_only(cfg) == StrValue(HomeDownloads)

\* defined when config is a dict; config.get raises AttributeError otherwise
default_download_dir(cfg) == dict_get(cfg, KeyDownloadLocation, StrValue(HomeDownloads))

Label1080p == <<"1","0","8","0","p">>
AcceptedHeights == {2160, 1440, 1080, 720, 480, 360}

\* variant: the typed quality lowered but not coerced to a label
coerce_quality_lower_only(typed_quality) == lower(typed_quality)

\* lines 160-169 of _interactive_prompt, quality a str
coerce_quality(typed_quality) ==
    LET q == lower(typed_quality) IN
    IF q \in QualityChoices THEN q
    ELSE LET parsed == int(quality_digits(q)) IN
         IF parsed # None /\ Val(parsed) \in AcceptedHeights
         THEN format_int(Val(parsed)) \o <<"p">>
         ELSE Label1080p

\* os.makedirs(out_dir, exist_ok=True) can only succeed on a non-empty str
makedirs_possible(dir) == is_str(dir) /\ dir.s # <<>>

FilenameTemplate ==
    <<"%","(","t","i","t","l","e",")","s",".","%","(","e","x","t",")","s">>

-----------------------------------------------------------------------------
(* Each specification below drives one part of the program; the variables  *)
(* of the other parts keep these values                                    *)

QualityIdle == label = BestLabel /\ selector = None
UrlIdle == raw = <<>> /\ paths = {} /\ urlDone = FALSE /\ normalized = None
ProgressIdle == _last_shown = InitialLastShown /\ _finished_line_printed = FALSE /\ trace = <<>>
StoreIdle == loaded = None
EtaIdle == etaSeconds = None /\ etaText = None

NoArguments == [url |-> None, output_dir |-> None, quality |-> None, interactive |-> FALSE]

MainLocalsIdle ==
    /\ pc = "idle"
    /\ args = NoArguments
    /\ config = NoneValue
    /\ url = None
    /\ out_dir = NoneValue
    /\ quality = NoneValue
    /\ format_string = None
    /\ created = {}
    /\ urlPrompts = 0
    /\ engineCalls = <<>>
    /\ engineResult = None
    /\ saveCalls = 0
    /\ exit_code = None
    /\ urlLines = <<>>
    /\ qualityLines = <<>>
    /\ saveOutcome = None

MainIdle ==
    /\ configFile = MissingFile
    /\ fileAtRunStart = MissingFile
    /\ run = 1
    /\ MainLocalsIdle

-----------------------------------------------------------------------------
(* Specification of main: runs of the program, one after another, over the *)
(* same preference file and file system                                    *)

MaxRuns == 2
MaxUrlPrompts == 2

UrlShort == <<"y","o","u","t","u",".","b","e","/","x">>
UrlNotAUrl == <<"n","o","t"," ","a"," ","u","r","l">>
UrlLocalFile == <<"w","w","w",".","m","p","4">>
DirOut == <<"/","o","u","t">>
DirSaved == <<"/","s","a","v","e","d">>

ArgUrls == { None, Some(UrlShort), Some(UrlNotAUrl), Some(UrlLocalFile) }
ArgDirs == { None, Some(DirOut) }
ArgQualities == { None, Some(<<"7","2","0","p">>), Some(BestLabel) }

\* the command lines tried: _interactive_prompt takes no argument from the
\* command line, so the runs that prompt vary --url and --output-dir only
Arguments ==
    { a \in [url : ArgUrls, output_dir : ArgDirs, quality : ArgQualities,
             interactive : BOOLEAN] :
        (a.interactive \/ a.url = None)
            => a.quality = None /\ (a.url = None \/ a.output_dir = None) }

UrlLines == { <<>>, <<" ">> \o UrlShort \o <<" ">>, UrlLocalFile }
DirLines == { <<>>, <<" ">> \o DirOut }
QualityLines ==
    { <<>>, <<"1","4","4","0">>, <<"9","9","9">>, <<"B","E","S","T">>,
      <<" ","7","2","0","P">>, <<"h","d">> }

InitialFiles ==
    { MissingFile, UnreadableFile, MalformedFile,
      JsonFile(EmptyList), JsonFile(NoneValue), JsonFile(StrValue(DirSaved)),
      JsonFile(Dict(EmptyItems)),
      JsonFile(Dict(<< <<KeyQuality, StrValue(<<"4","8","0">>)>> >>)),
      JsonFile(Dict(<< <<<<"t","h","e","m","e">>, StrValue(<<"d","a","r","k">>)>>,
                       <<KeyQuality, StrValue(BestLabel)>>,
                       <<KeyDownloadLocation, StrValue(DirSaved)>> >>)),
      JsonFile(Dict(<< <<KeyDownloadLocation, NoneValue>>,
                       <<KeyQuality, IntValue(720)>> >>)) }

InitMain ==
    /\ QualityIdle
    /\ raw = <<>> /\ urlDone = FALSE /\ normalized = None
    /\ paths \in { {}, {UrlLocalFile} }
    /\ ProgressIdle
    /\ configFile \in InitialFiles
    /\ fileAtRunStart = configFile
    /\ run = 1
    /\ MainLocalsIdle
    /\ StoreIdle
    /\ EtaIdle

otherVars == <<qualityVars, raw, urlDone, normalized, progressVars, storeVars, etaVars>>

\* return code from main
Return(code) ==
    /\ pc' = "exit"
    /\ exit_code' = Some(code)

\* an exception leaves main: no return value
Raise ==
    /\ pc' = "raised"
    /\ exit_code' = None

\* lines 174-176
Start(a) ==
    /\ pc = "idle"
    /\ args' = a
    /\ config' = load_config(configFile)
    /\ fileAtRunStart' = configFile
    /\ pc' = IF a.interactive \/ a.url = None \/ Val(a.url) = <<>>
             THEN "prompt_url" ELSE "resolve"
    /\ UNCHANGED <<configFile, run, url, out_dir, quality, format_string, created,
                   urlPrompts, engineCalls, engineResult, saveCalls, exit_code,
                   urlLines, qualityLines, saveOutcome, paths, otherVars>>

\* variant: the URL loop left on any line that is not empty
PromptUrl_leaving_on_any_line(line) ==
    /\ pc = "prompt_url"
    /\ urlPrompts < MaxUrlPrompts
    /\ urlPrompts' = urlPrompts + 1
    /\ urlLines' = Append(urlLines, line)
    /\ LET url_norm == IF strip(line) = <<>> THEN None ELSE Some(strip(line)) IN
       IF url_norm = None
       THEN UNCHANGED <<pc, url, exit_code>>
       ELSE /\ url' = url_norm
            /\ IF is_dict(config)
               THEN pc' = "prompt_dir" /\ UNCHANGED exit_code
               ELSE Raise
    /\ UNCHANGED <<configFile, fileAtRunStart, run, args, config, out_dir, quality,
                   format_string, created, engineCalls, engineResult, saveCalls,
                   qualityLines, saveOutcome, paths, otherVars>>

\* lines 144-150: one pass of the URL loop, and default_download_dir once
\* the loop is left
PromptUrl(line) ==
    /\ pc = "prompt_url"
    /\ urlPrompts < MaxUrlPrompts
    /\ urlPrompts' = urlPrompts + 1
    /\ urlLines' = Append(urlLines, line)
    /\ LET url_norm == normalize_url(strip(line), paths) IN
       IF url_norm = None
       THEN UNCHANGED <<pc, url, exit_code>>
       ELSE /\ url' = url_norm
            /\ IF is_dict(config)
               THEN pc' = "prompt_dir" /\ UNCHANGED exit_code
               ELSE Raise
    /\ UNCHANGED <<configFile, fileAtRunStart, run, args, config, out_dir, quality,
                   format_string, created, engineCalls, engineResult, saveCalls,
                   qualityLines, saveOutcome, paths, otherVars>>

\* lines 151-157
PromptDir(line, ok) ==
    /\ pc = "prompt_dir"
    /\ LET typed == strip(line)
           chosen == IF typed # <<>> THEN StrValue(typed) ELSE default_download_dir(config)
       IN  /\ out_dir' = chosen
           /\ IF makedirs_possible(chosen) /\ ok
              THEN /\ created' = created \cup {chosen.s}
                   /\ paths' = paths \cup {chosen.s}
                   /\ pc' = "prompt_quality"
                   /\ UNCHANGED exit_code
              ELSE /\ Return(2)
                   /\ UNCHANGED <<created, paths>>
    /\ UNCHANGED <<configFile, fileAtRunStart, run, args, config, url, quality,
                   format_string, urlPrompts, engineCalls, engineResult, saveCalls,
                   urlLines, qualityLines, saveOutcome, otherVars>>

\* lines 157-170 and 178-182
PromptQuality(line) ==
    /\ pc = "prompt_quality"
    /\ qualityLines' = Append(qualityLines, line)
    /\ LET typed == strip(line)
           default_quality == dict_get(config, KeyQuality, StrValue(Label1080p))
           chosen == IF typed # <<>> THEN StrValue(typed) ELSE default_quality
       IN  IF is_str(chosen)
           THEN /\ quality' = StrValue(coerce_quality(chosen.s))
                /\ pc' = "makedirs"
                /\ UNCHANGED exit_code
           ELSE /\ Raise
                /\ UNCHANGED quality
    /\ UNCHANGED <<configFile, fileAtRunStart, run, args, config, url, out_dir,
                   format_string, created, urlPrompts, engineCalls, engineResult,
                   saveCalls, urlLines, saveOutcome, paths, otherVars>>

\* lines 184-189
ResolveArguments ==
    /\ pc = "resolve"
    /\ LET url_norm == normalize_url(Val(args.url), paths)
           need_dir == args.output_dir = None \/ Val(args.output_dir) = <<>>
           need_quality == args.quality = None \/ Val(args.quality) = <<>>
       IN  IF url_norm = None
           THEN /\ Return(2)
                /\ UNCHANGED <<url, out_dir, quality>>
           ELSE /\ url' = url_norm
                /\ IF need_dir /\ ~is_dict(config)
                   THEN Raise /\ UNCHANGED <<out_dir, quality>>
                   ELSE /\ out_dir' = IF need_dir THEN default_download_dir(config)
                                      ELSE StrValue(Val(args.output_dir))
                        /\ IF need_quality /\ ~is_dict(config)
                           THEN Raise /\ UNCHANGED quality
                           ELSE /\ quality' = IF need_quality
                                              THEN dict_get(config, KeyQuality, StrValue(Label1080p))
                                              ELSE StrValue(Val(args.quality))
                                /\ pc' = "makedirs"
                                /\ UNCHANGED exit_code
    /\ UNCHANGED <<configFile, fileAtRunStart, run, args, config, format_string,
                   created, urlPrompts, engineCalls, engineResult, saveCalls,
                   urlLines, qualityLines, saveOutcome, paths, otherVars>>

\* variant: a failure of os.makedirs is ignored
MakeOutputDir_ignoring_failure(ok) ==
    /\ pc = "makedirs"
    /\ IF makedirs_possible(out_dir)
       THEN /\ IF ok
               THEN /\ created' = created \cup {out_dir.s}
                    /\ paths' = paths \cup {out_dir.s}
               ELSE UNCHANGED <<created, paths>>
            /\ IF is_str(quality)
               THEN /\ format_string' = Some(quality_to_format(quality.s))
                    /\ pc' = "download"
                    /\ UNCHANGED exit_code
               ELSE /\ Raise
                    /\ UNCHANGED format_string
       ELSE /\ Return(2)
            /\ UNCHANGED <<created, paths, format_string>>
    /\ UNCHANGED <<configFile, fileAtRunStart, run, args, config, url, out_dir,
                   quality, urlPrompts, engineCalls, engineResult, saveCalls,
                   urlLines, qualityLines, saveOutcome, otherVars>>

\* lines 191-210
MakeOutputDir(ok) ==
    /\ pc = "makedirs"
    /\ IF makedirs_possible(out_dir) /\ ok
       THEN /\ created' = created \cup {out_dir.s}
            /\ paths' = paths \cup {out_dir.s}
            /\ IF is_str(quality)
               THEN /\ format_string' = Some(quality_to_format(quality.s))
                    /\ pc' = "download"
                    /\ UNCHANGED exit_code
               ELSE /\ Raise
                    /\ UNCHANGED format_string
       ELSE /\ Return(2)
            /\ UNCHANGED <<created, paths, format_string>>
    /\ UNCHANGED <<configFile, fileAtRunStart, run, args, config, url, out_dir,
                   quality, urlPrompts, engineCalls, engineResult, saveCalls,
                   urlLines, qualityLines, saveOutcome, otherVars>>

\* lines 216-219, reached when ydl.download has returned
persist_and_return(outcome) ==
    IF is_dict(config)
    THEN /\ config' = dict_set(dict_set(config, KeyDownloadLocation, out_dir),
                               KeyQuality, quality)
         /\ configFile' = save_config(configFile, config', outcome)
         /\ saveCalls' = saveCalls + 1
         /\ saveOutcome' = Some(outcome)
         /\ Return(0)
    ELSE \* config[...] = ... raises TypeError inside the try block
         /\ Return(1)
         /\ UNCHANGED <<config, configFile, saveCalls, saveOutcome>>

\* variant: the preferences saved in the except branch as well
download_failed_saving ==
    /\ configFile' = save_config(configFile, config, "written")
    /\ saveCalls' = saveCalls + 1
    /\ saveOutcome' = Some("written")
    /\ Return(1)
    /\ UNCHANGED config

\* lines 220-226
download_failed ==
    /\ Return(1)
    /\ UNCHANGED <<config, configFile, saveCalls, saveOutcome>>

\* lines 212-226: result is what ydl.download does, outcome what the
\* write of the preference file does
Download(result, outcome) ==
    /\ pc = "download"
    /\ engineCalls' = Append(engineCalls,
                             [url |-> Val(url), format |-> Val(format_string),
                              outtmpl |-> <<out_dir.s, FilenameTemplate>>])
    /\ engineResult' = Some(result)
    /\ IF result = "returned"
       THEN persist_and_return(outcome)
       ELSE download_failed
    /\ UNCHANGED <<fileAtRunStart, run, args, url, out_dir, quality, format_string,
                   created, urlPrompts, urlLines, qualityLines, paths, otherVars>>

\* the program is started again
NewRun ==
    /\ pc \in {"exit", "raised"}
    /\ run < MaxRuns
    /\ run' = run + 1
    /\ pc' = "idle"
    /\ args' = NoArguments
    /\ config' = NoneValue
    /\ url' = None
    /\ out_dir' = NoneValue
    /\ quality' = NoneValue
    /\ format_string' = None
    /\ created' = {}
    /\ urlPrompts' = 0
    /\ engineCalls' = <<>>
    /\ engineResult' = None
    /\ saveCalls' = 0
    /\ exit_code' = None
    /\ urlLines' = <<>>
    /\ qualityLines' = <<>>
    /\ saveOutcome' = None
    /\ fileAtRunStart' = configFile
    /\ UNCHANGED <<configFile, paths, otherVars>>

Next ==
    \/ \E a \in Arguments : Start(a)
    \/ \E line \in UrlLines : PromptUrl(line)
    \/ \E line \in DirLines, ok \in BOOLEAN : PromptDir(line, ok)
    \/ \E line \in QualityLines : PromptQuality(line)
    \/ ResolveArguments
    \/ \E ok \in BOOLEAN : MakeOutputDir(ok)
    \/ \E result \in {"returned", "raised"},
          outcome \in {"written", "open_failed", "write_failed"} : Download(result, outcome)
    \/ NewRun

Init == InitMain

Spec == Init /\ [][Next]_vars

(* Specification of main run again and again from a missing preference    *)
(* file: only save_config changes the file                                *)

InitFresh ==
    /\ InitMain
    /\ configFile = MissingFile

SpecFresh == InitFresh /\ [][Next]_vars

-----------------------------------------------------------------------------
(* Specification of quality_to_format applied to one label *)

InitQuality ==
    /\ label \in Labels
    /\ selector = None
    /\ UrlIdle
    /\ ProgressIdle
    /\ MainIdle
    /\ StoreIdle
    /\ EtaIdle

ResolveQuality ==
    /\ selector = None
    /\ selector' = Some(quality_to_format(label))
    /\ UNCHANGED <<label, urlVars, progressVars, mainVars, storeVars, etaVars>>

NextQuality == ResolveQuality

SpecQuality == InitQuality /\ [][NextQuality]_vars

(* Specification of normalize_url applied to one string *)

InitUrl ==
    /\ QualityIdle
    /\ raw \in RawUrls
    /\ paths \in { {} } \cup { {p} : p \in LocalPaths }
    /\ urlDone = FALSE
    /\ normalized = None
    /\ ProgressIdle
    /\ MainIdle
    /\ StoreIdle
    /\ EtaIdle

NormalizeUrl ==
    /\ ~urlDone
    /\ urlDone' = TRUE
    /\ normalized' = normalize_url(raw, paths)
    /\ UNCHANGED <<raw, paths, qualityVars, progressVars, mainVars, storeVars, etaVars>>

NextUrl == NormalizeUrl

SpecUrl == InitUrl /\ [][NextUrl]_vars

(* Specification of one ConsoleProgress object: the engine delivers events *)
(* to hook, and main prints plain messages through _println                *)

Self == [last_shown |-> _last_shown,
         finished_line_printed |-> _finished_line_printed,
         out |-> <<>>]

InitProgress ==
    /\ QualityIdle
    /\ UrlIdle
    /\ _last_shown = InitialLastShown
    /\ _finished_line_printed = FALSE
    /\ trace = <<>>
    /\ MainIdle
    /\ StoreIdle
    /\ EtaIdle

Hook(d) ==
    /\ Len(trace) < MaxCalls
    /\ LET after == hook(Self, d) IN
       /\ _last_shown' = after.last_shown
       /\ _finished_line_printed' = after.finished_line_printed
       /\ trace' = Append(trace, [op |-> "hook", d |-> d, wrote |-> after.out])
    /\ UNCHANGED <<qualityVars, urlVars, mainVars, storeVars, etaVars>>

Println(text) ==
    /\ Len(trace) < MaxCalls
    /\ LET after == _println(Self, text) IN
       /\ _last_shown' = after.last_shown
       /\ _finished_line_printed' = after.finished_line_printed
       /\ trace' = Append(trace, [op |-> "_println", text |-> text, wrote |-> after.out])
    /\ UNCHANGED <<qualityVars, urlVars, mainVars, storeVars, etaVars>>

NextProgress ==
    \/ \E d \in ProgressEvents : Hook(d)
    \/ Println(CompletedText)

SpecProgress == InitProgress /\ [][NextProgress]_vars

(* Specification of the preference store alone: one record is saved with  *)
(* save_config, then read back with load_config                           *)

MaxFieldLen == 2

StoreChars == { "x", "/", " ", Quote, Backslash, "\n", Sup2 }
StoreLocations == StringsUpTo(StoreChars, MaxFieldLen)
StoreQualities == { <<"7","2","0","p">>, <<"b","e","s","t">>, <<Quote, "4", "K", Quote>> }

\* the records with optional string fields download_location and quality,
\* in either order of insertion
StoreRecords ==
    { Dict(EmptyItems) }
    \cup { Dict(<< <<KeyDownloadLocation, StrValue(d)>> >>) : d \in StoreLocations }
    \cup { Dict(<< <<KeyQuality, StrValue(q)>> >>) : q \in StoreQualities }
    \cup { Dict(<< <<KeyDownloadLocation, StrValue(d)>>, <<KeyQuality, StrValue(q)>> >>) :
             d \in StoreLocations, q \in StoreQualities }
    \cup { Dict(<< <<KeyQuality, StrValue(q)>>, <<KeyDownloadLocation, StrValue(d)>> >>) :
             d \in StoreLocations, q \in StoreQualities }

StoreFiles ==
    { MissingFile, MalformedFile,
      JsonFile(Dict(<< <<KeyQuality, StrValue(<<"3","6","0","p">>)>> >>)) }

storeFrame ==
    <<qualityVars, urlVars, progressVars, etaVars, fileAtRunStart, run, pc, args, url,
      out_dir, quality, format_string, created, urlPrompts, engineCalls, engineResult,
      saveCalls, exit_code, urlLines, qualityLines>>

InitStore ==
    /\ QualityIdle
    /\ UrlIdle
    /\ ProgressIdle
    /\ EtaIdle
    /\ config \in StoreRecords
    /\ configFile \in StoreFiles
    /\ fileAtRunStart = MissingFile
    /\ run = 1
    /\ pc = "idle"
    /\ args = NoArguments
    /\ url = None
    /\ out_dir = NoneValue
    /\ quality = NoneValue
    /\ format_string = None
    /\ created = {}
    /\ urlPrompts = 0
    /\ engineCalls = <<>>
    /\ engineResult = None
    /\ saveCalls = 0
    /\ exit_code = None
    /\ urlLines = <<>>
    /\ qualityLines = <<>>
    /\ saveOutcome = None
    /\ loaded = None

SaveConfig(outcome) ==
    /\ saveOutcome = None
    /\ configFile' = save_config(configFile, config, outcome)
    /\ saveOutcome' = Some(outcome)
    /\ UNCHANGED <<config, loaded, storeFrame>>

LoadConfig ==
    /\ saveOutcome # None
    /\ loaded = None
    /\ loaded' = Some(load_config(configFile))
    /\ UNCHANGED <<config, configFile, saveOutcome, storeFrame>>

NextStore ==
    \/ \E outcome \in {"written", "open_failed", "write_failed"} : SaveConfig(outcome)
    \/ LoadConfig

SpecStore == InitStore /\ [][NextStore]_vars

(* Specification of _format_eta applied to one ETA *)

MaxEta == 7300

\* ETAs beyond MaxEta: around one day and around one hundred hours
LongEtas == {86399, 86400, 359999, 360000}

InitEta ==
    /\ QualityIdle
    /\ UrlIdle
    /\ ProgressIdle
    /\ MainIdle
    /\ StoreIdle
    /\ etaSeconds \in {None} \cup { Some(n) : n \in (0..MaxEta) \cup LongEtas }
    /\ etaText = None

FormatEta ==
    /\ etaText = None
    /\ etaText' = Some(_format_eta(etaSeconds))
    /\ UNCHANGED <<etaSeconds, qualityVars, urlVars, progressVars, mainVars, storeVars>>

NextEta == FormatEta

SpecEta == InitEta /\ [][NextEta]_vars

-----------------------------------------------------------------------------
(* Properties of ConsoleProgress, over the calls recorded in trace *)

IsFinished(e) == e.op = "hook" /\ e.d.status = Some("finished")
IsDownloading(e) == e.op = "hook" /\ e.d.status = Some("downloading")
IsKnownSize(e) == IsDownloading(e) /\ hook_percent(e.d) # None
IsUnknownSize(e) == IsDownloading(e) /\ hook_percent(e.d) = None

PercentLinePrefix(p) ==
    <<"\r","D","o","w","n","l","o","a","d","i","n","g",":"," ">> \o format_3d(p) \o <<"%">>
Line100Prefix == <<"\r","D","o","w","n","l","o","a","d","i","n","g",":"," ","1","0","0","%">>
ProcessingLine == ProcessingText \o <<"\n">>

WritesPercent(e, p) == \E k \in 1..Len(e.wrote) : startswith(e.wrote[k], PercentLinePrefix(p))
ProcessingWrites(i, j) ==
    { <<n, k>> \in (i..j) \X (1..3) : k <= Len(trace[n].wrote) /\ trace[n].wrote[k] = ProcessingLine }

\* C1: every finished event writes the "Downloading: 100%" line, whatever
\* _last_shown was before it
C1_FinishedAlwaysWrites100 ==
    \A i \in 1..Len(trace) :
        IsFinished(trace[i]) =>
            \E k \in 1..Len(trace[i].wrote) : startswith(trace[i].wrote[k], Line100Prefix)

\* C2: a run of two or more finished events in a row writes the line
\* "Processing file..." exactly once
C2_ProcessingOncePerRun ==
    \A i \in 1..Len(trace), j \in 1..Len(trace) :
        (i < j /\ \A n \in i..j : IsFinished(trace[n]))
            => Cardinality(ProcessingWrites(i, j)) = 1

\* C3: after a known-size render followed by one or more unknown-size events
\* the next known-size event writes its line (also when its percent is the
\* one rendered before), and an unknown-size event always writes
C3_SwitchNeverSuppresses ==
    /\ \A i \in 1..Len(trace), k \in 1..Len(trace) :
           ( /\ i + 1 < k
             /\ IsKnownSize(trace[i]) /\ trace[i].wrote # <<>>
             /\ \A j \in (i + 1)..(k - 1) : IsUnknownSize(trace[j])
             /\ IsKnownSize(trace[k]) )
           => trace[k].wrote # <<>>
    /\ \A j \in 1..Len(trace) : IsUnknownSize(trace[j]) => trace[j].wrote # <<>>

LastCall == trace'[Len(trace')]

C4_KnownSizeStep ==
    (Len(trace') = Len(trace) + 1 /\ IsKnownSize(LastCall)) =>
        LET p == Val(hook_percent(LastCall.d)) IN
        IF p # _last_shown
        THEN /\ Len(LastCall.wrote) = 1
             /\ WritesPercent(LastCall, p)
             /\ _last_shown' = p
        ELSE /\ LastCall.wrote = <<>>
             /\ _last_shown' = _last_shown

C4_ChangesOnlyOnWrite ==
    _last_shown' # _last_shown =>
        /\ Len(trace') = Len(trace) + 1
        /\ WritesPercent(LastCall, _last_shown')

C4_SameEventTwice ==
    \A i \in 1..(Len(trace) - 1) :
        (IsKnownSize(trace[i]) /\ trace[i + 1].op = "hook" /\ trace[i + 1].d = trace[i].d)
            => /\ trace[i + 1].wrote = <<>>
               /\ Len(trace[i].wrote) <= 1
               /\ (i = 1 => Len(trace[i].wrote) = 1)

\* C4: a known-size downloading event writes one progress line exactly when
\* its percent differs from _last_shown; _last_shown changes only on a write
\* of a percent line, to the percent written; the same known-size event fed
\* twice in a row writes nothing the second time, so one line in all when the
\* first one wrote (as it does on a new ConsoleProgress)
C4_DeDuplication ==
    /\ [][C4_KnownSizeStep /\ C4_ChangesOnlyOnWrite]_vars
    /\ []C4_SameEventTwice

C4_Witness ==
    /\ Len(trace) >= 3
    /\ IsKnownSize(trace[2]) /\ trace[2].wrote # <<>>
    /\ trace[3].op = "hook" /\ trace[3].d = trace[2].d /\ trace[3].wrote = <<>>

-----------------------------------------------------------------------------
(* Properties of load_config and main *)

HoldsRecord(file) ==
    /\ file.kind = "text"
    /\ LET parsed == json_loads(file.text)
       IN  parsed.ok /\ parsed.value.t = "dict"

\* C5: whatever the preference file holds, load_config returns a mapping,
\* empty when the file holds no key-value record, and no run raises on
\* reading it
C5_LoadConfigReturnsRecord ==
    pc # "idle" =>
        /\ config.t = "dict"
        /\ ~HoldsRecord(fileAtRunStart) =>
               (pc # "raised" /\ (saveCalls = 0 => config = Dict(EmptyItems)))

\* C6: a run writes the preference file at most once and only after the
\* engine has returned; a run that returns 1 or 2 leaves the file as it was
C6_SaveOnlyAfterSuccess ==
    /\ saveCalls <= 1
    /\ saveCalls = 1 => (engineResult = Some("returned") /\ Len(engineCalls) = 1)
    /\ configFile # fileAtRunStart => saveCalls = 1
    /\ (pc = "exit" /\ exit_code \in {Some(1), Some(2)}) =>
           (saveCalls = 0 /\ configFile = fileAtRunStart)

C6_Witness ==
    /\ pc = "exit" /\ exit_code = Some(0)
    /\ saveCalls = 1
    /\ configFile # fileAtRunStart
    /\ HoldsRecord(configFile)

\* C7: every run ends with exit code 0, 1 or 2: 0 exactly when the engine
\* was invoked and returned, 1 exactly when it was invoked and raised, 2
\* exactly when it was never invoked
C7_ExitCodes ==
    /\ pc # "raised"
    /\ pc = "exit" =>
          /\ exit_code \in {Some(0), Some(1), Some(2)}
          /\ exit_code = Some(0) <=> engineResult = Some("returned")
          /\ exit_code = Some(1) <=> engineResult = Some("raised")
          /\ exit_code = Some(2) <=> engineCalls = <<>>

-----------------------------------------------------------------------------
(* Properties of quality_to_format *)

Label4k2160 == <<"4","k","2","1","6","0">>

Chain2160 ==
    <<"b","e","s","t","[","h","e","i","g","h","t","<","=","2","1","6","0","]","/","b","e","s","t","v","i","d","e","o","[","h","e","i","g","h","t","<","=","2","1","6","0","]","+","b","e","s","t","a","u","d","i","o","/","b","e","s","t">>
Chain1440 ==
    <<"b","e","s","t","[","h","e","i","g","h","t","<","=","1","4","4","0","]","/","b","e","s","t","v","i","d","e","o","[","h","e","i","g","h","t","<","=","1","4","4","0","]","+","b","e","s","t","a","u","d","i","o","/","b","e","s","t">>
Chain1080 ==
    <<"b","e","s","t","[","h","e","i","g","h","t","<","=","1","0","8","0","]","/","b","e","s","t","v","i","d","e","o","[","h","e","i","g","h","t","<","=","1","0","8","0","]","+","b","e","s","t","a","u","d","i","o","/","b","e","s","t">>
Chain720 ==
    <<"b","e","s","t","[","h","e","i","g","h","t","<","=","7","2","0","]","/","b","e","s","t","v","i","d","e","o","[","h","e","i","g","h","t","<","=","7","2","0","]","+","b","e","s","t","a","u","d","i","o","/","b","e","s","t">>
Chain480 ==
    <<"b","e","s","t","[","h","e","i","g","h","t","<","=","4","8","0","]","/","b","e","s","t","v","i","d","e","o","[","h","e","i","g","h","t","<","=","4","8","0","]","+","b","e","s","t","a","u","d","i","o","/","b","e","s","t">>
Chain360 ==
    <<"b","e","s","t","[","h","e","i","g","h","t","<","=","3","6","0","]","/","b","e","s","t","v","i","d","e","o","[","h","e","i","g","h","t","<","=","3","6","0","]","+","b","e","s","t","a","u","d","i","o","/","b","e","s","t">>
Chain42160 ==
    <<"b","e","s","t","[","h","e","i","g","h","t","<","=","4","2","1","6","0","]","/","b","e","s","t","v","i","d","e","o","[","h","e","i","g","h","t","<","=","4","2","1","6","0","]","+","b","e","s","t","a","u","d","i","o","/","b","e","s","t">>

\* C8 as stated: the label "4k2160" yields the chain capped at 2160
C8_4k2160CapsAt2160 ==
    (label = Label4k2160 /\ selector # None) => Val(selector) = Chain2160

\* C8: the label "4k2160" yields the chain capped at 42160, the number its
\* digits 4, 2, 1, 6, 0 spell in order
C8_4k2160CapsAt42160 ==
    (label = Label4k2160 /\ selector # None) => Val(selector) = Chain42160

C8_Witness == label = Label4k2160 /\ selector # None

EqualsIgnoringCase(a, b) ==
    /\ Len(a) = Len(b)
    /\ \A i \in 1..Len(a) :
           a[i] = b[i] \/ \E k \in 1..26 : {a[i], b[i]} = {UpperCase[k], LowerCase[k]}

IsBestSynonym(s) ==
    \E b \in {BestLabel, BestAvailableLabel, AutoLabel} : EqualsIgnoringCase(s, b)

HasDigit(s) == \E i \in 1..Len(s) : s[i] \in {AsciiDigits[k] : k \in 1..10} \cup {Sup2}

ClosedSetChains ==
    { <<<<"2","1","6","0","p">>, Chain2160>>, <<<<"1","4","4","0","p">>, Chain1440>>,
      <<<<"1","0","8","0","p">>, Chain1080>>, <<<<"7","2","0","p">>, Chain720>>,
      <<<<"4","8","0","p">>, Chain480>>, <<<<"3","6","0","p">>, Chain360>> }

\* C9: quality_to_format never returns an empty selector; "best", "best
\* available" and "auto" in any letter case give "best"; each label Hp of the
\* closed set gives the chain capped at H; any other label without a digit
\* gives the chain capped at 1080
C9_SelectorOfLabel ==
    selector # None =>
        /\ Val(selector) # <<>>
        /\ IsBestSynonym(label) => Val(selector) = BestLabel
        /\ \A c \in ClosedSetChains : label = c[1] => Val(selector) = c[2]
        /\ (~HasDigit(label) /\ ~IsBestSynonym(label)) => Val(selector) = Chain1080

C9_Witness ==
    /\ selector = Some(BestLabel)
    /\ label = <<"B","e","s","t"," ","A","v","a","i","l","a","b","l","e">>

-----------------------------------------------------------------------------
(* Properties of normalize_url *)

IsBlank(c) == c \in {" ", "\t", "\n"}

\* the string without its leading and trailing white space
Trimmed(s) ==
    LET inked == { k \in 1..Len(s) : ~IsBlank(s[k]) } IN
    IF inked = {} THEN <<>>
    ELSE SubSeq(s, CHOOSE i \in inked : \A k \in inked : i <= k,
                   CHOOSE j \in inked : \A k \in inked : k <= j)

StartsIgnoringCase(s, prefix) ==
    /\ Len(s) >= Len(prefix)
    /\ EqualsIgnoringCase(SubSeq(s, 1, Len(prefix)), prefix)

IsHttpUrl(s) == StartsIgnoringCase(s, HttpPrefix) \/ StartsIgnoringCase(s, HttpsPrefix)

\* C10: normalize_url is invalid on the empty string and on a string whose
\* trimmed form is an existing path; else the trimmed string if it starts
\* with http:// or https://; else https:// plus the trimmed string if it
\* starts with www., youtube.com, m.youtube.com or youtu.be; else invalid.
\* Every result that is not invalid starts with http:// or https://
C10_NormalizeUrl ==
    urlDone =>
        LET u == Trimmed(raw) IN
        /\ normalized =
              IF raw = <<>> \/ u \in paths THEN None
              ELSE IF IsHttpUrl(u) THEN Some(u)
              ELSE IF \E p \in HostPrefixes : StartsIgnoringCase(u, p)
                   THEN Some(<<"h","t","t","p","s",":","/","/">> \o u)
              ELSE None
        /\ normalized # None => IsHttpUrl(Val(normalized))

C10_Witness ==
    /\ urlDone
    /\ raw = <<" ","W","w","w",".","x","\n">>
    /\ paths = { <<"W","w","w",".","x">> }
    /\ normalized = None

-----------------------------------------------------------------------------
\* the string the URL of this run was made from: the last line read at the
\* URL prompt on the interactive path, the --url argument otherwise
UrlSource == IF urlLines # <<>> THEN urlLines[Len(urlLines)] ELSE Val(args.url)

IsAcceptedUrlOf(u, source) ==
    /\ IsHttpUrl(u)
    /\ \/ u = Trimmed(source)
       \/ u = <<"h","t","t","p","s",":","/","/">> \o Trimmed(source)

\* C11: in every run the engine is invoked at most once; when it is about
\* to be invoked and when it has been invoked, the URL handed to it is a
\* result of normalize_url that is not invalid, and os.makedirs has already
\* succeeded on the output directory, on the interactive and on the
\* non-interactive path
C11_EngineOnceAfterUrlAndDir ==
    /\ Len(engineCalls) <= 1
    /\ pc = "download" =>
          /\ engineCalls = <<>>
          /\ url # None
          /\ IsAcceptedUrlOf(Val(url), UrlSource)
          /\ is_str(out_dir)
          /\ out_dir.s \in created
    /\ \A i \in 1..Len(engineCalls) :
          /\ IsAcceptedUrlOf(engineCalls[i].url, UrlSource)
          /\ engineCalls[i].outtmpl[1] \in created

C11_Witness ==
    /\ Len(engineCalls) = 1
    /\ args.interactive
    /\ urlLines = << <<>>, <<" ">> \o UrlShort \o <<" ">> >>
    /\ engineCalls[1].url = <<"h","t","t","p","s",":","/","/">> \o UrlShort
    /\ engineCalls[1].outtmpl[1] = DirOut

C11_WitnessNonInteractive ==
    /\ Len(engineCalls) = 1
    /\ ~args.interactive
    /\ urlLines = <<>>
    /\ engineCalls[1].outtmpl[1] = DirOut

-----------------------------------------------------------------------------
\* everything written to standard output by the calls made so far, one
\* element per print call
RECURSIVE WritesOf(_)
WritesOf(calls) ==
    IF calls = <<>> THEN <<>>
    ELSE WritesOf(SubSeq(calls, 1, Len(calls) - 1)) \o calls[Len(calls)].wrote

Stdout == WritesOf(trace)

IsInPlaceWrite(w) == w # <<>> /\ w[1] = "\r"
IsBareNewline(w) == w = <<"\n">>
IsMessageWrite(w) == ~IsInPlaceWrite(w) /\ ~IsBareNewline(w)

\* the bare newlines written after write i and before the next in-place
\* write, or before the end of the output when there is none
NewlinesAfter(i) ==
    { k \in (i + 1)..Len(Stdout) :
        /\ IsBareNewline(Stdout[k])
        /\ \A j \in (i + 1)..k : ~IsInPlaceWrite(Stdout[j]) }

\* C12: a plain message is never written right after an in-place progress
\* write (a newline comes first), and after an in-place progress write at
\* most one bare newline is written before the next in-place write, however
\* many plain messages are printed
C12_MessagesStartOnFreshLine ==
    /\ \A i \in 2..Len(Stdout) :
          IsMessageWrite(Stdout[i]) =>
              /\ ~IsInPlaceWrite(Stdout[i - 1])
              /\ Stdout[i - 1][Len(Stdout[i - 1])] = "\n"
    /\ \A i \in 1..Len(Stdout) :
          IsInPlaceWrite(Stdout[i]) => Cardinality(NewlinesAfter(i)) <= 1

C12_Witness ==
    /\ Len(Stdout) = 5
    /\ IsInPlaceWrite(Stdout[1])
    /\ IsBareNewline(Stdout[2])
    /\ IsMessageWrite(Stdout[3])
    /\ IsMessageWrite(Stdout[4])
    /\ IsInPlaceWrite(Stdout[5])
    /\ trace[2].op = "hook"
    /\ trace[3].op = "_println"

-----------------------------------------------------------------------------
\* C19: _println writes its bare newline only right after an in-place
\* progress write: a ConsoleProgress that has written no progress line
\* prints the completion message with no blank line before it
C19_NewlineOnlyAfterInPlace ==
    \A k \in 1..Len(Stdout) :
        IsBareNewline(Stdout[k]) => (k > 1 /\ IsInPlaceWrite(Stdout[k - 1]))

-----------------------------------------------------------------------------
\* the record a preference file holds, empty when it holds none
RecordIn(file) ==
    IF HoldsRecord(file) THEN json_loads(file.text).value ELSE Dict(EmptyItems)

NonInteractiveSuccess ==
    /\ pc = "exit" /\ exit_code = Some(0)
    /\ ~args.interactive
    /\ args.url # None /\ Val(args.url) # <<>>

FlagGiven(flag) == flag # None /\ Val(flag) # <<>>

ResolvedOutputDir ==
    IF FlagGiven(args.output_dir) THEN StrValue(Val(args.output_dir))
    ELSE IF KeyDownloadLocation \in dict_keys(RecordIn(fileAtRunStart))
    THEN dict_get(RecordIn(fileAtRunStart), KeyDownloadLocation, NoneValue)
    ELSE StrValue(HomeDownloads)

ResolvedQuality ==
    IF FlagGiven(args.quality) THEN StrValue(Val(args.quality))
    ELSE IF KeyQuality \in dict_keys(RecordIn(fileAtRunStart))
    THEN dict_get(RecordIn(fileAtRunStart), KeyQuality, NoneValue)
    ELSE StrValue(Label1080p)

ResolvedAsStated ==
    /\ out_dir = ResolvedOutputDir
    /\ quality = ResolvedQuality
    /\ Len(engineCalls) = 1
    /\ engineCalls[1].outtmpl[1] = ResolvedOutputDir.s

\* the file holds the record of the start of the run with the two
\* preferences set to the resolved values, every other key kept
FileHoldsResolved ==
    /\ HoldsRecord(configFile)
    /\ LET before == RecordIn(fileAtRunStart)
           after == RecordIn(configFile)
       IN  /\ dict_keys(after) = dict_keys(before) \cup {KeyDownloadLocation, KeyQuality}
           /\ dict_get(after, KeyDownloadLocation, NoneValue) = ResolvedOutputDir
           /\ dict_get(after, KeyQuality, NoneValue) = ResolvedQuality
           /\ \A k \in dict_keys(before) \ {KeyDownloadLocation, KeyQuality} :
                 dict_get(after, k, NoneValue) = dict_get(before, k, NoneValue)

\* C13 as stated: on a non-interactive run that succeeds the output
\* directory and the quality are the flag, else the persisted value, else
\* the default, and the preference file afterwards holds the loaded record
\* with the two preferences set to these values
C13_ResolvedAndPersisted ==
    NonInteractiveSuccess => (ResolvedAsStated /\ FileHoldsResolved)

\* C13 amended: the resolution as stated; the file holds the updated record
\* when the write of save_config completed, and is left as it was or
\* truncated when the write failed
C13_ResolvedAndPersistedIfWritten ==
    NonInteractiveSuccess =>
        /\ ResolvedAsStated
        /\ saveOutcome # None
        /\ saveOutcome = Some("written") => FileHoldsResolved
        /\ saveOutcome # Some("written") => configFile \in {fileAtRunStart, TruncatedFile}

C13_Witness ==
    /\ NonInteractiveSuccess
    /\ args.output_dir = None
    /\ args.quality = Some(<<"7","2","0","p">>)
    /\ saveOutcome = Some("written")
    /\ out_dir = StrValue(DirSaved)
    /\ configFile # fileAtRunStart
    /\ dict_get(RecordIn(configFile), <<"t","h","e","m","e">>, NoneValue)
          = StrValue(<<"d","a","r","k">>)
    /\ dict_get(RecordIn(configFile), KeyQuality, NoneValue) = StrValue(<<"7","2","0","p">>)

-----------------------------------------------------------------------------
\* the value the quality step works on: the typed line without its outer
\* white space, or the persisted quality, or "1080p", when that is empty
QualityInput ==
    LET typed == Trimmed(qualityLines[1])
        before == RecordIn(fileAtRunStart)
    IN  IF typed # <<>> THEN StrValue(typed)
        ELSE IF KeyQuality \in dict_keys(before) THEN dict_get(before, KeyQuality, NoneValue)
        ELSE StrValue(Label1080p)

IsAsciiDigit(c) == c \in { AsciiDigits[k] : k \in 1..10 }
DigitsOf(s) == SelectSeq(s, IsAsciiDigit)

HeightLabels ==
    { <<2160, <<"2","1","6","0","p">> >>, <<1440, <<"1","4","4","0","p">> >>,
      <<1080, <<"1","0","8","0","p">> >>, <<720, <<"7","2","0","p">> >>,
      <<480, <<"4","8","0","p">> >>, <<360, <<"3","6","0","p">> >> }

\* the label the claim assigns to an input
StatedQualityOf(s) ==
    IF \E c \in QualityChoices : EqualsIgnoringCase(s, c)
    THEN CHOOSE c \in QualityChoices : EqualsIgnoringCase(s, c)
    ELSE IF \E h \in HeightLabels :
                DigitsOf(s) # <<>> /\ decimal_value(DigitsOf(s)) = h[1]
    THEN (CHOOSE h \in HeightLabels : decimal_value(DigitsOf(s)) = h[1])[2]
    ELSE Label1080p

\* C14: once the quality step of the interactive prompt has run, it has
\* read exactly one line, and the quality it returned is a label of the
\* closed set: the in-set label the input spells in any letter case, else
\* the height its digits form followed by "p" when that height is in the
\* set, else 1080p, for every typed line and every persisted default
C14_QualityStepCoerces ==
    qualityLines # <<>> =>
        /\ Len(qualityLines) = 1
        /\ pc # "raised"
        /\ is_str(quality)
        /\ quality.s \in QualityChoices
        /\ is_str(QualityInput)
        /\ quality.s = StatedQualityOf(QualityInput.s)

-----------------------------------------------------------------------------
\* C15: a record with optional string fields download_location and quality
\* that save_config has written completely is what the next load_config
\* returns: a record with the same keys and the same values
C15_RoundTrip ==
    (saveOutcome = Some("written") /\ loaded # None) =>
        /\ is_dict(Val(loaded))
        /\ dict_keys(Val(loaded)) = dict_keys(config)
        /\ \A k \in dict_keys(config) :
              dict_get(Val(loaded), k, NoneValue) = dict_get(config, k, NoneValue)
        /\ Len(Val(loaded).items) = Len(config.items)

C15_Witness ==
    /\ saveOutcome = Some("written")
    /\ loaded # None
    /\ dict_get(config, KeyDownloadLocation, NoneValue) = StrValue(<<Quote, Backslash>>)
    /\ dict_get(config, KeyQuality, NoneValue) = StrValue(<<Quote, "4", "K", Quote>>)
    /\ dict_get(Val(loaded), KeyDownloadLocation, NoneValue) = StrValue(<<Quote, Backslash>>)

-----------------------------------------------------------------------------
\* what normalize_url says of a line, given the paths that exist
HasHostPrefix(u) == \E p \in HostPrefixes : StartsIgnoringCase(u, p)

RejectedLine(line, fs) ==
    LET u == Trimmed(line) IN
    u = <<>> \/ u \in fs \/ (~IsHttpUrl(u) /\ ~HasHostPrefix(u))

UrlOfLine(line) ==
    LET u == Trimmed(line) IN
    IF IsHttpUrl(u) THEN u ELSE <<"h","t","t","p","s",":","/","/">> \o u

\* a pass of the URL loop: the line read is appended; a rejected line
\* keeps the prompt at the URL, an accepted one leaves the loop with its
\* normalised form; neither the directory nor the quality step has run
UrlStep ==
    (pc = "prompt_url" /\ urlLines' # urlLines) =>
        LET line == urlLines'[Len(urlLines')] IN
        /\ urlLines' = Append(urlLines, line)
        /\ urlPrompts' = Len(urlLines')
        /\ url = None
        /\ out_dir' = NoneValue /\ created' = {} /\ qualityLines' = <<>>
        /\ IF RejectedLine(line, paths)
           THEN pc' = "prompt_url" /\ url' = None
           ELSE /\ url' = Some(UrlOfLine(line))
                /\ pc' \in {"prompt_dir", "raised"}
                /\ pc' = "raised" => ~HoldsRecord(fileAtRunStart)

\* the directory step: it runs after the URL step has accepted a line, and
\* either os.makedirs succeeds and the quality prompt is next, or the
\* prompt is aborted with no quality line read and main returns 2
DirStep ==
    (pc = "prompt_dir" /\ pc' # pc) =>
        /\ url # None /\ url' = url
        /\ qualityLines' = <<>>
        /\ \/ pc' = "prompt_quality" /\ is_str(out_dir') /\ out_dir'.s \in created'
           \/ /\ pc' = "exit" /\ exit_code' = Some(2)
              /\ created' = {} /\ engineCalls' = <<>>

\* the quality prompt is issued only after both earlier steps
QualityStep ==
    (qualityLines' # qualityLines /\ qualityLines' # <<>>) =>
        /\ pc = "prompt_quality"
        /\ url # None
        /\ is_str(out_dir) /\ out_dir.s \in created

\* once the URL loop is left: every line but the last was rejected, the
\* last one is the first accepted, and the url is its normalised form
UrlStepLeft ==
    (urlLines # <<>> /\ pc # "prompt_url") =>
        /\ urlPrompts = Len(urlLines)
        /\ \A i \in 1..(Len(urlLines) - 1) : RejectedLine(urlLines[i], paths)
        /\ url = Some(UrlOfLine(urlLines[Len(urlLines)]))
        /\ IsAcceptedUrlOf(Val(url), urlLines[Len(urlLines)])

UrlStepPending ==
    pc = "prompt_url" =>
        /\ url = None
        /\ urlPrompts = Len(urlLines)
        /\ \A i \in 1..Len(urlLines) : RejectedLine(urlLines[i], paths)
        /\ out_dir = NoneValue /\ created = {} /\ qualityLines = <<>>

\* C16: the URL step of the interactive prompt asks again after each line
\* normalize_url rejects and is left at the first line it accepts, so the
\* number of URL prompts is the index of that line and the url returned is
\* its normalised form; the directory and the quality step come after it,
\* and a failure to create the directory aborts the prompt before the
\* quality prompt
C16_UrlStepThenDirThenQuality ==
    /\ [](UrlStepLeft /\ UrlStepPending)
    /\ [][UrlStep /\ DirStep /\ QualityStep]_vars

C16_Witness ==
    /\ pc = "exit" /\ exit_code = Some(2)
    /\ urlLines = << <<>>, <<" ">> \o UrlShort \o <<" ">> >>
    /\ urlPrompts = 2
    /\ url = Some(<<"h","t","t","p","s",":","/","/">> \o UrlShort)
    /\ out_dir = StrValue(DirOut)
    /\ qualityLines = <<>>

-----------------------------------------------------------------------------
\* the fields of a text between its colons
ColonsOf(text) == { k \in 1..Len(text) : text[k] = ":" }

RECURSIVE FieldsOf(_)
FieldsOf(text) ==
    IF ColonsOf(text) = {} THEN <<text>>
    ELSE LET k == CHOOSE c \in ColonsOf(text) : \A d \in ColonsOf(text) : c <= d
         IN  <<SubSeq(text, 1, k - 1)>> \o FieldsOf(SubSeq(text, k + 1, Len(text)))

IsNumeral(f) == f # <<>> /\ \A i \in 1..Len(f) : IsAsciiDigit(f[i])
IsTwoDigits(f) == Len(f) = 2 /\ IsNumeral(f)

\* C17: _format_eta returns "?" only for an absent ETA; an ETA of n seconds
\* below one hour is rendered MM:SS and one of an hour or more H:MM:SS, MM
\* and SS two digits below 60, H without padding, and the fields add up to
\* n; 0 is rendered 00:00
C17_FormatEta ==
    etaText # None =>
        LET text == Val(etaText)
            fields == FieldsOf(text)
        IN  IF etaSeconds = None THEN text = <<"?">>
            ELSE LET n == Val(etaSeconds) IN
                 /\ text # <<"?">>
                 /\ n = 0 => text = <<"0","0",":","0","0">>
                 /\ Len(fields) = IF n < 3600 THEN 2 ELSE 3
                 /\ \A i \in 1..Len(fields) : IsNumeral(fields[i])
                 /\ LET mm == fields[Len(fields) - 1]
                        ss == fields[Len(fields)]
                        hours == IF Len(fields) = 3 THEN decimal_value(fields[1]) ELSE 0
                    IN  /\ IsTwoDigits(mm) /\ decimal_value(mm) < 60
                        /\ IsTwoDigits(ss) /\ decimal_value(ss) < 60
                        /\ Len(fields) = 3 => (hours >= 1 /\ fields[1][1] # "0")
                        /\ hours * 3600 + decimal_value(mm) * 60 + decimal_value(ss) = n

C17_Witness ==
    /\ etaSeconds = Some(3661)
    /\ etaText = Some(<<"1",":","0","1",":","0","1">>)

C17_WitnessZero ==
    /\ etaSeconds = Some(0)
    /\ etaText = Some(<<"0","0",":","0","0">>)

-----------------------------------------------------------------------------
\* the file holds a record with a quality of the closed set and, as
\* download_location, a directory that os.makedirs succeeded on: in this
\* run when this run wrote the file, in an earlier one otherwise
ValidRecordFile ==
    /\ configFile.kind = "text"
    /\ LET parsed == json_loads(configFile.text)
           q == dict_get(parsed.value, KeyQuality, NoneValue)
           dir == dict_get(parsed.value, KeyDownloadLocation, NoneValue)
       IN  /\ parsed.ok /\ is_dict(parsed.value)
           /\ is_str(q) /\ q.s \in QualityChoices
           /\ is_str(dir) /\ dir.s \in paths
           /\ saveOutcome = Some("written") => dir.s \in created

\* C18 as stated: over runs that start with the preference file missing,
\* the file is always missing or a record with a quality of the closed set
\* and a download_location whose creation succeeded in the run that wrote it
C18_FileMissingOrValid ==
    configFile = MissingFile \/ ValidRecordFile

\* C18 amended: the file may also be empty, left so by a save_config whose
\* write failed after the file was opened
C18_FileMissingValidOrTruncated ==
    /\ configFile = MissingFile \/ configFile = TruncatedFile \/ ValidRecordFile
    /\ (configFile = TruncatedFile /\ fileAtRunStart # TruncatedFile) =>
           saveOutcome = Some("write_failed")
    /\ saveOutcome \in {Some("written"), Some("open_failed")} =>
           (configFile # TruncatedFile \/ fileAtRunStart = TruncatedFile)

C18_Witness ==
    /\ run = 2
    /\ fileAtRunStart # MissingFile
    /\ HoldsRecord(fileAtRunStart)
    /\ saveOutcome = Some("written")
    /\ qualityLines = << <<"1","4","4","0">> >>
    /\ configFile # fileAtRunStart
    /\ dict_get(RecordIn(configFile), KeyQuality, NoneValue) = StrValue(<<"1","4","4","0","p">>)
    /\ dict_get(RecordIn(configFile), KeyDownloadLocation, NoneValue) = StrValue(DirOut)

=============================================================================
